---- MODULE Spec2Model ----
(***************************************************************************)
(* Model of streamlit_app.py: a Streamlit page that loads labelled         *)
(* reference images from CONTEXT_FOLDER, sends them with the uploaded      *)
(* image and the instruction text to a remote model, decodes the reply as  *)
(* JSON and renders one card per crop.                                     *)
(*                                                                         *)
(* A script run (one execution of main()) is modelled as a sequence of     *)
(* steps driven by pc.  Python values are records tagged by t; a Python    *)
(* str built by an f-string or read from a file is a sequence of pieces.   *)
(***************************************************************************)
EXTENDS Integers, Sequences, FiniteSets, TLC

\* ------------------------------------------------------------------------
\* Bounds of the model
\* ------------------------------------------------------------------------
MaxFiles == 3      \* most entries generated in the varied stage directory
MaxList == 3       \* longest JSON array generated in a reply field

\* ------------------------------------------------------------------------
\* Python values
\* ------------------------------------------------------------------------
PyNone == [t |-> "null"]
PyBool(b) == [t |-> "bool", b |-> b]
PyNum(n) == [t |-> "num", n |-> n]
PyStr(s) == [t |-> "str", s |-> s]
PyList(items) == [t |-> "list", items |-> items]
PyDict(members) == [t |-> "obj", members |-> members]

\* Python truth value of v, as tested by an if statement.
Truthy(v) ==
    CASE v.t = "null" -> FALSE
      [] v.t = "bool" -> v.b
      [] v.t = "num" -> v.n # 0
      [] v.t = "str" -> v.s # ""
      [] v.t = "list" -> Len(v.items) > 0
      [] v.t = "obj" -> Len(v.members) > 0

\* isinstance(v, list)
IsList(v) == v.t = "list"

\* Indices of the members of dict d stored under key.
KeyIdx(d, key) == {i \in 1..Len(d.members) : d.members[i].key = key}

HasKey(d, key) == KeyIdx(d, key) # {}

\* members after d[key] = val: a key already there keeps its place.
DictSet(members, key, val) ==
    IF \E i \in 1..Len(members) : members[i].key = key
    THEN [i \in 1..Len(members) |->
            IF members[i].key = key THEN [key |-> key, val |-> val] ELSE members[i]]
    ELSE Append(members, [key |-> key, val |-> val])

Last(S) == CHOOSE i \in S : \A j \in S : j <= i

\* d.get(key, default), for a dict d.
DictGet(d, key, default) ==
    IF HasKey(d, key) THEN d.members[Last(KeyIdx(d, key))].val ELSE default

\* ------------------------------------------------------------------------
\* Reply text: a sequence of lexical tokens [k, s]
\*   k = "p" punctuation, "lit" null/true/false, "num", "str" (a quoted
\*   string, s its content), "ws" white space, "fence" a markdown fence
\*   marker, "word" any other text.
\* ------------------------------------------------------------------------
Tok(k, s) == [k |-> k, s |-> s]
LBRACE == Tok("p", "{")
RBRACE == Tok("p", "}")
LBRACK == Tok("p", "[")
RBRACK == Tok("p", "]")
COLON == Tok("p", ":")
COMMA == Tok("p", ",")
NL == Tok("ws", "\n")
FENCE_JSON == Tok("fence", "bt3json")   \* three backticks followed by json
FENCE == Tok("fence", "bt3")            \* three backticks

\* text.replace(FENCE_JSON, "").replace(FENCE, "")
StripFences(text) ==
    LET without_json == SelectSeq(text, LAMBDA tk : tk # FENCE_JSON)
    IN  SelectSeq(without_json, LAMBDA tk : tk # FENCE)

DIGITS == <<"0", "1", "2", "3", "4", "5", "6", "7", "8", "9">>

\* int(s) for a one-digit number token.
NumVal(s) == CHOOSE n \in 0..9 : DIGITS[n + 1] = s

LitVal(s) ==
    CASE s = "null" -> PyNone
      [] s = "true" -> PyBool(TRUE)
      [] s = "false" -> PyBool(FALSE)

ParseFail == [ok |-> FALSE, val |-> PyNone, next |-> 0]
ParseOk(v, n) == [ok |-> TRUE, val |-> v, next |-> n]

RECURSIVE ParseValue(_, _)
RECURSIVE ParseItems(_, _, _)
RECURSIVE ParseMembers(_, _, _)

\* One JSON value starting at token i of toks (white space already dropped).
ParseValue(toks, i) ==
    IF i > Len(toks) THEN ParseFail
    ELSE LET tk == toks[i] IN
         CASE tk.k = "lit" -> ParseOk(LitVal(tk.s), i + 1)
           [] tk.k = "num" -> ParseOk(PyNum(NumVal(tk.s)), i + 1)
           [] tk.k = "str" -> ParseOk(PyStr(tk.s), i + 1)
           [] tk = LBRACK ->
                IF i + 1 <= Len(toks) /\ toks[i + 1] = RBRACK
                THEN ParseOk(PyList(<<>>), i + 2)
                ELSE ParseItems(toks, i + 1, <<>>)
           [] tk = LBRACE ->
                IF i + 1 <= Len(toks) /\ toks[i + 1] = RBRACE
                THEN ParseOk(PyDict(<<>>), i + 2)
                ELSE ParseMembers(toks, i + 1, <<>>)
           [] OTHER -> ParseFail

\* The elements of an array after "[", acc the elements read so far.
ParseItems(toks, i, acc) ==
    LET r == ParseValue(toks, i) IN
    IF ~r.ok \/ r.next > Len(toks) THEN ParseFail
    ELSE IF toks[r.next] = COMMA
         THEN ParseItems(toks, r.next + 1, Append(acc, r.val))
         ELSE IF toks[r.next] = RBRACK
              THEN ParseOk(PyList(Append(acc, r.val)), r.next + 1)
              ELSE ParseFail

\* The members of an object after "{", acc the members read so far.
ParseMembers(toks, i, acc) ==
    IF i + 1 > Len(toks) \/ toks[i].k # "str" \/ toks[i + 1] # COLON
    THEN ParseFail
    ELSE LET r == ParseValue(toks, i + 2) IN
         IF ~r.ok \/ r.next > Len(toks) THEN ParseFail
         ELSE LET acc2 == DictSet(acc, toks[i].s, r.val) IN
              IF toks[r.next] = COMMA
              THEN ParseMembers(toks, r.next + 1, acc2)
              ELSE IF toks[r.next] = RBRACE
                   THEN ParseOk(PyDict(acc2), r.next + 1)
                   ELSE ParseFail

\* json.loads(text): [ok, val]; ok = FALSE stands for json.JSONDecodeError.
json_loads(text) ==
    LET toks == SelectSeq(text, LAMBDA tk : tk.k # "ws")
        r == ParseValue(toks, 1)
    IN  IF r.ok /\ r.next = Len(toks) + 1
        THEN [ok |-> TRUE, val |-> r.val]
        ELSE [ok |-> FALSE, val |-> PyNone]

\* ------------------------------------------------------------------------
\* Reference library: CONTEXT_FOLDER on disk
\*   tree        [listable, entries]            the root directory
\*   crop entry  [name, isdir, listable, entries]
\*   stage entry [name, isdir, listable, entries]
\*   file entry  [name, readable, data]         name is a sequence of characters
\* listable = FALSE: os.listdir raises (PermissionError); readable = FALSE:
\* open()/read() raises (permission, or the entry is itself a directory).
\* ------------------------------------------------------------------------
SLICE == 2    \* image_files[:2]

LowerChar(c) ==
    CASE c = "P" -> "p" [] c = "N" -> "n" [] c = "G" -> "g"
      [] c = "J" -> "j" [] c = "E" -> "e" [] OTHER -> c

\* name.lower()
Lower(name) == [i \in 1..Len(name) |-> LowerChar(name[i])]

\* name.endswith(suffix)
EndsWith(name, suffix) ==
    /\ Len(name) >= Len(suffix)
    /\ SubSeq(name, Len(name) - Len(suffix) + 1, Len(name)) = suffix

IMAGE_SUFFIXES ==
    {<<".", "p", "n", "g">>, <<".", "j", "p", "g">>, <<".", "j", "p", "e", "g">>}

\* f.lower().endswith((".png", ".jpg", ".jpeg"))
IsImageName(name) == \E suffix \in IMAGE_SUFFIXES : EndsWith(Lower(name), suffix)

\* Faulty variant of Slice: the cap is not applied.
SliceAll(s, n) == s

\* s[:n]
Slice(s, n) == SubSeq(s, 1, IF Len(s) < n THEN Len(s) ELSE n)

\* f"{crop_name} - {stage_name}:"
Description(crop_name, stage_name) == <<crop_name, " - ", stage_name, ":">>

RECURSIVE ReadFiles(_, _, _, _)
\* Lines 67-75: the loop over image_files[:2]; a file whose open or read
\* raises is reported on stdout and skipped.
ReadFiles(crop_name, stage_name, files, acc) ==
    IF files = <<>> THEN acc
    ELSE LET f == Head(files)
             entry == [description |-> Description(crop_name, stage_name),
                       data |-> f.data]
         IN  ReadFiles(crop_name, stage_name, Tail(files),
                       IF f.readable THEN Append(acc, entry) ELSE acc)

\* Lines 62-75 for one stage directory, appending to context_images.
LoadStage(crop_name, stage, context_images) ==
    LET image_files == SelectSeq(stage.entries, LAMBDA f : IsImageName(f.name))
    IN  ReadFiles(crop_name, stage.name, Slice(image_files, SLICE), context_images)

LoadRaised == [raised |-> TRUE, images |-> <<>>]

RECURSIVE LoadStages(_, _, _, _)
\* Lines 59-75: the loop over os.listdir(crop_path), from entry i on.
LoadStages(crop_name, stages, i, context_images) ==
    IF i > Len(stages) THEN [raised |-> FALSE, images |-> context_images]
    ELSE LET stage == stages[i] IN
         IF ~stage.isdir
         THEN LoadStages(crop_name, stages, i + 1, context_images)
         ELSE IF ~stage.listable
              THEN LoadRaised
              ELSE LoadStages(crop_name, stages, i + 1,
                              LoadStage(crop_name, stage, context_images))

RECURSIVE LoadCrops(_, _, _)
\* Lines 56-75: the loop over os.listdir(context_folder), from entry i on.
LoadCrops(crops, i, context_images) ==
    IF i > Len(crops) THEN [raised |-> FALSE, images |-> context_images]
    ELSE LET crop == crops[i] IN
         IF ~crop.isdir
         THEN LoadCrops(crops, i + 1, context_images)
         ELSE IF ~crop.listable
              THEN LoadRaised
              ELSE LET r == LoadStages(crop.name, crop.entries, 1, context_images)
                   IN  IF r.raised THEN LoadRaised
                       ELSE LoadCrops(crops, i + 1, r.images)

\* load_context_images(context_folder): [raised, images]; raised = TRUE when
\* an os.listdir call raises, which no handler in the function catches.
load_context_images(tree) ==
    IF ~tree.listable THEN LoadRaised ELSE LoadCrops(tree.entries, 1, <<>>)

\* ------------------------------------------------------------------------
\* Prompt assembly (call_llm, lines 82-96)
\* ------------------------------------------------------------------------
TextPart(pieces) == [kind |-> "text", text |-> pieces]
ImagePart(data) == [kind |-> "image", mime_type |-> "image/jpeg", data |-> data]

SEP_INPUT == TextPart(<<"\n\nINPUT IMAGE:">>)
SEP_EXAMPLES ==
    TextPart(<<"\n\nUse the following examples to match the crop in the input image:\n">>)

RECURSIVE AppendExamplesDedup(_, _)
\* Faulty variant of AppendExamples: an example whose description is already
\* in the payload is left out.
AppendExamplesDedup(prompt_parts, context_images) ==
    IF context_images = <<>> THEN prompt_parts
    ELSE LET e == Head(context_images)
             seen == \E i \in 1..Len(prompt_parts) :
                        prompt_parts[i] = TextPart(e.description)
         IN  AppendExamplesDedup(
                 IF seen THEN prompt_parts
                 ELSE prompt_parts \o <<TextPart(e.description), ImagePart(e.data)>>,
                 Tail(context_images))

RECURSIVE AppendExamples(_, _)
\* Lines 92-96: the loop appending each description and its image.
AppendExamples(prompt_parts, context_images) ==
    IF context_images = <<>> THEN prompt_parts
    ELSE LET e == Head(context_images) IN
         AppendExamples(prompt_parts \o <<TextPart(e.description), ImagePart(e.data)>>,
                        Tail(context_images))

\* Lines 82-96: prompt_parts for the given image, prompt and examples.
BuildPromptParts(image_data, prompt_text, context_images) ==
    AppendExamples(<<TextPart(prompt_text), SEP_INPUT, ImagePart(image_data),
                     SEP_EXAMPLES>>, context_images)

\* ------------------------------------------------------------------------
\* Credential (load_api_key, lines 21-33)
\*   A line of the .env file is a sequence of fragments; "=" and white
\*   space are fragments of their own.
\* ------------------------------------------------------------------------
KEY_NAME == "GOOGLE_API_KEY"
IsSpace(x) == x \in {" ", "\n"}

RECURSIVE LStrip(_)
LStrip(s) == IF s # <<>> /\ IsSpace(Head(s)) THEN LStrip(Tail(s)) ELSE s

RECURSIVE RStrip(_)
RStrip(s) ==
    IF s # <<>> /\ IsSpace(s[Len(s)]) THEN RStrip(SubSeq(s, 1, Len(s) - 1)) ELSE s

\* s.strip()
Strip(s) == RStrip(LStrip(s))

RECURSIVE SplitEq(_, _, _)
\* s.split("="): the list of parts, cur the part being read.
SplitEq(s, cur, parts) ==
    IF s = <<>> THEN Append(parts, cur)
    ELSE IF Head(s) = "=" THEN SplitEq(Tail(s), <<>>, Append(parts, cur))
         ELSE SplitEq(Tail(s), Append(cur, Head(s)), parts)

\* line.startswith("GOOGLE_API_KEY")
StartsWithKey(line) == line # <<>> /\ Head(line) = KEY_NAME

RECURSIVE ScanLines(_, _)
\* Lines 25-27: the first line starting with the key name decides.
ScanLines(lines, i) ==
    IF i > Len(lines) THEN [found |-> FALSE, raised |-> "none", key |-> <<>>]
    ELSE IF StartsWithKey(lines[i])
         THEN LET parts == SplitEq(Strip(lines[i]), <<>>, <<>>) IN
              IF Len(parts) < 2
              THEN [found |-> TRUE, raised |-> "IndexError", key |-> <<>>]
              ELSE [found |-> TRUE, raised |-> "none", key |-> Strip(parts[2])]
         ELSE ScanLines(lines, i + 1)

\* load_api_key(): [raised, key]. file = [present, lines]; environ_key is
\* os.environ.get("GOOGLE_API_KEY"), <<>> when unset or empty.
load_api_key(file, environ_key) ==
    LET scan == IF file.present THEN ScanLines(file.lines, 1)
                ELSE [found |-> FALSE, raised |-> "none", key |-> <<>>]
    IN  IF scan.found THEN [raised |-> scan.raised, key |-> scan.key]
        ELSE IF environ_key # <<>> THEN [raised |-> "none", key |-> environ_key]
             ELSE [raised |-> "ValueError", key |-> <<>>]

\* ------------------------------------------------------------------------
\* Reply handling (call_llm, lines 101-114)
\* ------------------------------------------------------------------------
ERR_KEY == "Google API key not found."
ERR_PROMPT == "Error: Could not find 'st_prompt.txt'."
ERR_JSON == "Error: Invalid JSON response"
ERR_EMPTY == "Error: Empty or non-text response from LLM."
ERR_CALL == "Error calling LLM"
ERR_PROCESS == "Error processing LLM result"
ERR_NO_CROP == "Could not identify the crop or an error occurred."

\* Faulty variant of ParseResponse: a reply that does not decode is handed
\* on as the raw text instead of None.
ParseResponseRaw(text) ==
    IF text # <<>>
    THEN LET r == json_loads(StripFences(text)) IN
         IF r.ok
         THEN [llm_result |-> r.val, errors |-> <<>>, decode |-> "ok"]
         ELSE [llm_result |-> PyStr("raw text"), errors |-> <<ERR_JSON>>,
               decode |-> "error"]
    ELSE [llm_result |-> PyNone, errors |-> <<ERR_EMPTY>>, decode |-> "none"]

\* Lines 101-110 for the text of a response: [llm_result, errors, decode].
ParseResponse(text) ==
    IF text # <<>>
    THEN LET r == json_loads(StripFences(text)) IN
         IF r.ok
         THEN [llm_result |-> r.val, errors |-> <<>>, decode |-> "ok"]
         ELSE [llm_result |-> PyNone, errors |-> <<ERR_JSON>>, decode |-> "error"]
    ELSE [llm_result |-> PyNone, errors |-> <<ERR_EMPTY>>, decode |-> "none"]

\* ------------------------------------------------------------------------
\* process_image, lines 121-139
\* ------------------------------------------------------------------------
\* Faulty variant of AsList: a scalar is dropped instead of wrapped.
AsListDropScalar(v) == IF IsList(v) THEN v.items ELSE <<>>

\* x if isinstance(x, list) else [x]
AsList(v) == IF IsList(v) THEN v.items ELSE <<v>>

NO_RESULT ==
    [raised |-> "none", crops |-> <<>>, scores |-> <<>>, stages |-> <<>>,
     description |-> PyStr("No results from LLM"), errors |-> <<>>]

\* The exceptions the handler of line 135 catches.
ProcessCaught == {"KeyError", "IndexError"}

\* Lines 123-133: the try body; .get exists on a dict only.
ProcessBody(llm_result) ==
    IF llm_result.t # "obj"
    THEN [NO_RESULT EXCEPT !.raised = "AttributeError"]
    ELSE LET description == DictGet(llm_result, "description", PyStr("")) IN
         [raised |-> "none",
          crops |-> AsList(DictGet(llm_result, "crop_name", PyList(<<>>))),
          scores |-> AsList(DictGet(llm_result, "confidence_score", PyList(<<>>))),
          stages |-> AsList(DictGet(llm_result, "stage_of_plant_growth", PyList(<<>>))),
          description |-> IF Truthy(description) THEN description
                          ELSE PyStr("No description."),
          errors |-> <<>>]

\* Lines 121-139 given call_llm's return value: [raised, crops, scores,
\* stages, description, errors]; raised names an exception that leaves
\* process_image.
ProcessResult(llm_result) ==
    IF Truthy(llm_result)
    THEN LET body == ProcessBody(llm_result) IN
         IF body.raised \in ProcessCaught
         THEN [NO_RESULT EXCEPT !.description = PyStr("Error parsing results"),
                                !.errors = <<ERR_PROCESS>>]
         ELSE body
    ELSE NO_RESULT

\* ------------------------------------------------------------------------
\* Rendering of the results (main, lines 347-372)
\* ------------------------------------------------------------------------
\* str(n) for 0 <= n <= 9.
NumStr(n) == DIGITS[n + 1]

RECURSIVE Format(_, _)
RECURSIVE FormatItems(_, _)
RECURSIVE FormatMembers(_, _)

\* The pieces of str(v) (quoted = FALSE) or repr(v) (quoted = TRUE).
Format(v, quoted) ==
    CASE v.t = "null" -> <<"None">>
      [] v.t = "bool" -> IF v.b THEN <<"True">> ELSE <<"False">>
      [] v.t = "num" -> <<NumStr(v.n)>>
      [] v.t = "str" -> IF quoted THEN <<"'", v.s, "'">> ELSE <<v.s>>
      [] v.t = "list" -> <<"[">> \o FormatItems(v.items, 1) \o <<"]">>
      [] v.t = "obj" -> <<"{">> \o FormatMembers(v.members, 1) \o <<"}">>

FormatItems(items, i) ==
    IF i > Len(items) THEN <<>>
    ELSE (IF i > 1 THEN <<", ">> ELSE <<>>) \o Format(items[i], TRUE)
         \o FormatItems(items, i + 1)

FormatMembers(members, i) ==
    IF i > Len(members) THEN <<>>
    ELSE (IF i > 1 THEN <<", ">> ELSE <<>>) \o <<"'", members[i].key, "': ">>
         \o Format(members[i].val, TRUE) \o FormatMembers(members, i + 1)

NA == <<"N/A">>

\* list[i] for a 0-based i >= 0: [raised, val].
PyIndex(list, i) ==
    IF i < Len(list) THEN [raised |-> "none", val |-> Format(list[i + 1], FALSE)]
    ELSE [raised |-> "IndexError", val |-> <<>>]

\* Faulty variant of CardField: the guard is off by one.
CardFieldOffByOne(list, i) ==
    IF i <= Len(list) THEN PyIndex(list, i) ELSE [raised |-> "none", val |-> NA]

\* Lines 358 and 361: list[i] if i < len(list) else 'N/A'
CardField(list, i) ==
    IF i < Len(list) THEN PyIndex(list, i) ELSE [raised |-> "none", val |-> NA]

\* Lines 349-363: the card of crop number i (0-based).
Card(crops, scores, stages, i) ==
    LET score == CardField(scores, i)
        stage == CardField(stages, i)
    IN  [raised |-> IF score.raised # "none" THEN score.raised ELSE stage.raised,
         title |-> <<"Crop ", NumStr(i + 1)>>,
         crop |-> <<"**Crop:** ">> \o Format(crops[i + 1], FALSE),
         score |-> <<"**Score:** ">> \o score.val,
         stage |-> <<"**Stage:** ">> \o stage.val]

\* Lines 347-372: [raised, cards, description, errors]; the cards are those
\* written before an exception, if any, ends the run.
RenderResults(crops, scores, stages, description) ==
    IF crops # <<>>
    THEN LET all == [i \in 1..Len(crops) |-> Card(crops, scores, stages, i - 1)]
             bad == {i \in 1..Len(crops) : all[i].raised # "none"}
         IN  IF bad = {}
             THEN [raised |-> "none", cards |-> all,
                   description |-> <<"**Description:** ">> \o Format(description, FALSE),
                   errors |-> <<>>]
             ELSE LET first == CHOOSE i \in bad : \A j \in bad : i <= j IN
                  [raised |-> all[first].raised, cards |-> SubSeq(all, 1, first - 1),
                   description |-> <<>>, errors |-> <<>>]
    ELSE [raised |-> "none", cards |-> <<>>, description |-> <<>>,
          errors |-> <<ERR_NO_CROP>>]

\* ------------------------------------------------------------------------
\* State
\* ------------------------------------------------------------------------
VARIABLES
    env_file,        \* the .env file: [present, lines]
    environ_key,     \* os.environ.get("GOOGLE_API_KEY"), <<>> when unset or empty
    prompt_file,     \* st_prompt.txt: [present, text]
    tree,            \* the directory tree under CONTEXT_FOLDER
    service,         \* what generate_content does when called: [kind, text]
    widget_file,     \* value of the file_uploader widget in the browser
    session_state,   \* st.session_state, a function of its keys
    pc,              \* position of the script run; "idle" between runs
    analyze_button,  \* st.button("Analyze Image") of this run
    reset_button,    \* st.button("Reset") of this run
    api_key,         \* GOOGLE_API_KEY
    prompt_text,     \* main's prompt_text
    offered,         \* the controls rendered on the page by this run
    errors,          \* the st.error messages of this run, in order
    context_images,  \* call_llm's context_images
    prompt_parts,    \* call_llm's prompt_parts
    response,        \* the response of generate_content: [kind, text]
    llm_result,      \* process_image's llm_result
    decode,          \* outcome of json.loads in this run: "none", "ok", "error"
    result,          \* what process_image returned
    cards,           \* the result cards written by this run
    description_card,\* the description card written by this run
    exc,             \* the exception that ended this run, "none" if none
    events,          \* the order of load / assemble / call / parse in this run
    past             \* history: the kinds of failure of the session's earlier runs

envVars == <<env_file, environ_key, prompt_file, tree, service>>
sessionVars == <<widget_file, session_state>>
buttonVars == <<analyze_button, reset_button>>
localVars == <<api_key, prompt_text, offered, errors, context_images, prompt_parts,
               response, llm_result, decode, result, cards, description_card,
               exc, events>>
fixedInRun == <<envVars, past>>
vars == <<envVars, sessionVars, pc, buttonVars, localVars, past>>

NoFile == "None"
EmptyDict == [k \in {} |-> NoFile]
NoResponse == [kind |-> "none", text |-> <<>>]
FreshResult == [NO_RESULT EXCEPT !.description = PyStr("")]

\* uploaded_file.getvalue()
GetValue(file) == file

\* Image.open(file) raises for a file that holds no image.
IsCorrupt(file) == file = "imgBad"

\* Faulty variant of FreshLocals: the messages of the previous run stay on
\* the page.
FreshLocalsKeepErrors ==
    /\ api_key' = <<>>
    /\ prompt_text' = <<>>
    /\ offered' = {}
    /\ errors' = errors
    /\ context_images' = <<>>
    /\ prompt_parts' = <<>>
    /\ response' = NoResponse
    /\ llm_result' = PyNone
    /\ decode' = "none"
    /\ result' = FreshResult
    /\ cards' = <<>>
    /\ description_card' = <<>>
    /\ exc' = "none"
    /\ events' = <<>>

\* A script run starts with no local state and an empty page.
FreshLocals ==
    /\ api_key' = <<>>
    /\ prompt_text' = <<>>
    /\ offered' = {}
    /\ errors' = <<>>
    /\ context_images' = <<>>
    /\ prompt_parts' = <<>>
    /\ response' = NoResponse
    /\ llm_result' = PyNone
    /\ decode' = "none"
    /\ result' = FreshResult
    /\ cards' = <<>>
    /\ description_card' = <<>>
    /\ exc' = "none"
    /\ events' = <<>>

\* The run ends: st.stop(), the end of main, or an uncaught exception.
EndRun == pc' = "idle"

\* ------------------------------------------------------------------------
\* The steps of one script run (main)
\* ------------------------------------------------------------------------
\* Lines 146-153: the credential.
Startup ==
    /\ pc = "startup"
    /\ LET r == load_api_key(env_file, environ_key) IN
       /\ api_key' = r.key
       /\ errors' = IF r.raised = "ValueError" THEN Append(errors, ERR_KEY) ELSE errors
       /\ exc' = IF r.raised = "ValueError" THEN "none" ELSE r.raised
       /\ IF r.raised = "none" THEN pc' = "uploader" ELSE EndRun
    /\ UNCHANGED <<fixedInRun, sessionVars, buttonVars, prompt_text, offered,
                   context_images, prompt_parts, response, llm_result, decode,
                   result, cards, description_card, events>>

\* Lines 301-307: the upload control and st.session_state.uploaded_file.
RenderUploader ==
    /\ pc = "uploader"
    /\ offered' = offered \cup {"upload"}
    /\ session_state' =
         [k \in DOMAIN session_state \cup {"uploaded_file"} |->
            IF k = "uploaded_file" THEN widget_file ELSE session_state[k]]
    /\ pc' = "template"
    /\ UNCHANGED <<fixedInRun, widget_file, buttonVars, api_key, prompt_text, errors,
                   context_images, prompt_parts, response, llm_result, decode,
                   result, cards, description_card, exc, events>>

\* Lines 309-314: the instruction text.
ReadTemplate ==
    /\ pc = "template"
    /\ IF prompt_file.present
       THEN /\ prompt_text' = prompt_file.text
            /\ pc' = "image"
            /\ UNCHANGED errors
       ELSE /\ errors' = Append(errors, ERR_PROMPT)
            /\ EndRun
            /\ UNCHANGED prompt_text
    /\ UNCHANGED <<fixedInRun, sessionVars, buttonVars, api_key, offered,
                   context_images, prompt_parts, response, llm_result, decode,
                   result, cards, description_card, exc, events>>

\* Lines 316-323: the uploaded image is opened and shown.
ShowImage ==
    /\ pc = "image"
    /\ LET file == session_state["uploaded_file"] IN
       IF file # NoFile /\ IsCorrupt(file)
       THEN /\ exc' = "UnidentifiedImageError"
            /\ EndRun
            /\ UNCHANGED offered
       ELSE /\ offered' = IF file # NoFile THEN offered \cup {"image"} ELSE offered
            /\ pc' = "buttons"
            /\ UNCHANGED exc
    /\ UNCHANGED <<fixedInRun, sessionVars, buttonVars, api_key, prompt_text, errors,
                   context_images, prompt_parts, response, llm_result, decode,
                   result, cards, description_card, events>>

\* Lines 327-342: the two buttons; Reset clears the session and reruns the
\* script, Analyze with an uploaded file goes on to process_image.  After
\* session_state.clear() the uploader widget may or may not keep its file.
Buttons ==
    /\ pc = "buttons"
    /\ IF reset_button
       THEN /\ session_state' = [k \in {"uploaded_file"} |-> NoFile]
            /\ \E w \in {widget_file, NoFile} : widget_file' = w
            /\ pc' = "startup"
            /\ analyze_button' = FALSE
            /\ reset_button' = FALSE
            /\ FreshLocals
       ELSE /\ offered' = offered \cup {"analyze", "reset"}
            /\ IF session_state["uploaded_file"] # NoFile /\ analyze_button
               THEN pc' = "load"
               ELSE EndRun
            /\ UNCHANGED <<sessionVars, buttonVars, api_key, prompt_text, errors,
                           context_images, prompt_parts, response, llm_result,
                           decode, result, cards, description_card, exc, events>>
    /\ UNCHANGED fixedInRun

\* Lines 82-84 and 112-114: the reference images are loaded; an exception
\* of the loader is caught by call_llm's handler, which returns None.
LoadContext ==
    /\ pc = "load"
    /\ events' = Append(events, "load")
    /\ LET r == load_context_images(tree) IN
       IF r.raised
       THEN /\ errors' = Append(errors, ERR_CALL)
            /\ pc' = "process"
            /\ UNCHANGED context_images
       ELSE /\ context_images' = r.images
            /\ pc' = "assemble"
            /\ UNCHANGED errors
    /\ UNCHANGED <<fixedInRun, sessionVars, buttonVars, api_key, prompt_text, offered,
                   prompt_parts, response, llm_result, decode, result, cards,
                   description_card, exc>>

\* Lines 85-96: the payload.
Assemble ==
    /\ pc = "assemble"
    /\ events' = Append(events, "assemble")
    /\ prompt_parts' = BuildPromptParts(GetValue(session_state["uploaded_file"]),
                                        prompt_text, context_images)
    /\ pc' = "call"
    /\ UNCHANGED <<fixedInRun, sessionVars, buttonVars, api_key, prompt_text, offered,
                   errors, context_images, response, llm_result, decode, result,
                   cards, description_card, exc>>

\* Faulty variant of RemoteCall: a call that raises is tried once more.
RemoteCallRetry ==
    /\ pc = "call"
    /\ events' = Append(events, "call")
    /\ IF service.kind = "raise"
       THEN /\ errors' = Append(errors, ERR_CALL)
            /\ pc' = IF "call" \in {events[i] : i \in 1..Len(events)}
                     THEN "process" ELSE "call"
            /\ UNCHANGED response
       ELSE /\ response' = service
            /\ pc' = "parse"
            /\ UNCHANGED errors
    /\ UNCHANGED <<fixedInRun, sessionVars, buttonVars, api_key, prompt_text, offered,
                   context_images, prompt_parts, llm_result, decode, result, cards,
                   description_card, exc>>

\* Lines 98-99 and 112-114: the remote call; an exception of the call is
\* caught by call_llm's handler, which returns None.
RemoteCall ==
    /\ pc = "call"
    /\ events' = Append(events, "call")
    /\ IF service.kind = "raise"
       THEN /\ errors' = Append(errors, ERR_CALL)
            /\ pc' = "process"
            /\ UNCHANGED response
       ELSE /\ response' = service
            /\ pc' = "parse"
            /\ UNCHANGED errors
    /\ UNCHANGED <<fixedInRun, sessionVars, buttonVars, api_key, prompt_text, offered,
                   context_images, prompt_parts, llm_result, decode, result, cards,
                   description_card, exc>>

\* Lines 101-114: the reply is decoded; response.text raises when the
\* response holds no text part, which call_llm's handler catches.
ParseReply ==
    /\ pc = "parse"
    /\ events' = Append(events, "parse")
    /\ LET r == IF response.kind = "blocked"
                THEN [llm_result |-> PyNone, errors |-> <<ERR_CALL>>, decode |-> "none"]
                ELSE ParseResponse(response.text) IN
       /\ llm_result' = r.llm_result
       /\ decode' = r.decode
       /\ errors' = errors \o r.errors
    /\ pc' = "process"
    /\ UNCHANGED <<fixedInRun, sessionVars, buttonVars, api_key, prompt_text, offered,
                   context_images, prompt_parts, response, result, cards,
                   description_card, exc>>

\* Lines 119-139 and 344: process_image turns call_llm's value into the
\* four results; an exception it does not catch ends the run.
Process ==
    /\ pc = "process"
    /\ LET r == ProcessResult(llm_result) IN
       IF r.raised # "none"
       THEN /\ exc' = r.raised
            /\ EndRun
            /\ UNCHANGED <<result, errors>>
       ELSE /\ result' = r
            /\ errors' = errors \o r.errors
            /\ pc' = "render"
            /\ UNCHANGED exc
    /\ UNCHANGED <<fixedInRun, sessionVars, buttonVars, api_key, prompt_text, offered,
                   context_images, prompt_parts, response, llm_result, decode,
                   cards, description_card, events>>

\* Lines 347-372: the results are written.
Render ==
    /\ pc = "render"
    /\ LET r == RenderResults(result.crops, result.scores, result.stages,
                              result.description) IN
       /\ cards' = r.cards
       /\ description_card' = r.description
       /\ errors' = errors \o r.errors
       /\ exc' = r.raised
    /\ EndRun
    /\ UNCHANGED <<fixedInRun, sessionVars, buttonVars, api_key, prompt_text, offered,
                   context_images, prompt_parts, response, llm_result, decode,
                   result, events>>

NextRun ==
    \/ Startup
    \/ RenderUploader
    \/ ReadTemplate
    \/ ShowImage
    \/ Buttons
    \/ LoadContext
    \/ Assemble
    \/ RemoteCall
    \/ ParseReply
    \/ Process
    \/ Render

\* ------------------------------------------------------------------------
\* The environments explored
\* ------------------------------------------------------------------------
Chars_a_png == <<"a", ".", "p", "n", "g">>
Chars_b_JPG == <<"b", ".", "J", "P", "G">>
Chars_c_jpeg == <<"c", ".", "j", "p", "e", "g">>
Chars_d_txt == <<"d", ".", "t", "x", "t">>
Chars_e_png_bak == <<"e", ".", "p", "n", "g", ".", "b", "a", "k">>
Chars_png == <<"p", "n", "g">>
Chars_g_Jpeg == <<"g", ".", "J", "p", "e", "g">>

File(name, readable, data) == [name |-> name, readable |-> readable, data |-> data]

\* Directory entries the varied stage directory is filled from: images in
\* the three extensions and in upper case, an image that cannot be read,
\* names that are no image names, and two images with the same bytes.
FilePool ==
    {File(Chars_a_png, TRUE, "bytesA"), File(Chars_b_JPG, TRUE, "bytesB"),
     File(Chars_c_jpeg, FALSE, "bytesC"), File(Chars_d_txt, TRUE, "bytesD"),
     File(Chars_e_png_bak, TRUE, "bytesE"), File(Chars_png, TRUE, "bytesF"),
     File(Chars_g_Jpeg, TRUE, "bytesA")}

\* The listings of a directory of at most n entries (names are unique).
Listings(n) ==
    UNION {{s \in [1..k -> FilePool] : \A i, j \in 1..k : s[i] = s[j] => i = j} :
           k \in 0..n}

Dir(name, listable, entries) ==
    [name |-> name, isdir |-> TRUE, listable |-> listable, entries |-> entries]
Plain(name) == [name |-> name, isdir |-> FALSE, listable |-> FALSE, entries |-> <<>>]

Unlistable == {"none", "root", "Wheat", "Rice", "Flowering", "Seedling", "Tillering"}

\* context_crops/Wheat/{Flowering, Seedling}, context_crops/notes.txt,
\* context_crops/Rice/{README, Tillering}; files is the listing of
\* Wheat/Flowering and denied the directory whose listing fails.
MkTree(files, denied) ==
    [listable |-> denied # "root",
     entries |->
       <<Dir("Wheat", denied # "Wheat",
             <<Dir("Flowering", denied # "Flowering", files),
               Dir("Seedling", denied # "Seedling",
                   <<File(Chars_c_jpeg, TRUE, "bytesS1"), File(Chars_a_png, TRUE, "bytesS2"),
                     File(Chars_b_JPG, TRUE, "bytesS3")>>)>>),
         Plain("notes.txt"),
         Dir("Rice", denied # "Rice",
             <<Plain("README"),
               Dir("Tillering", denied # "Tillering",
                   <<File(Chars_d_txt, TRUE, "bytesT1"),
                     File(Chars_a_png, TRUE, "bytesT2")>>)>>)>>]

GenTrees == {MkTree(files, denied) : files \in Listings(MaxFiles), denied \in Unlistable}

ThreeImages ==
    <<File(Chars_a_png, TRUE, "bytesA"), File(Chars_b_JPG, TRUE, "bytesB"),
      File(Chars_g_Jpeg, TRUE, "bytesA")>>

SmallTrees ==
    {MkTree(ThreeImages, "none"), MkTree(ThreeImages, "Tillering"),
     MkTree(<<File(Chars_c_jpeg, FALSE, "bytesC"), File(Chars_a_png, TRUE, "bytesA")>>,
            "none")}

\* --- replies of the remote model -----------------------------------------
Str(s) == Tok("str", s)
Num(n) == Tok("num", NumStr(n))
Lit(s) == Tok("lit", s)
Word(s) == Tok("word", s)

CROP_NAMES == <<"rice", "wheat", "maize">>
STAGE_NAMES == <<"seedling", "flowering">>
SCORES == <<9, 7, 0, 8>>

Cyclic(seq, i) == seq[((i - 1) % Len(seq)) + 1]

RECURSIVE ArrayItems(_, _, _)
\* The tokens of the first n elements, from element i on.
ArrayItems(elem(_), n, i) ==
    IF i > n THEN <<>>
    ELSE (IF i > 1 THEN <<COMMA>> ELSE <<>>) \o <<elem(i)>> \o ArrayItems(elem, n, i + 1)

\* The tokens of a JSON array of n elements.
Array(elem(_), n) == <<LBRACK>> \o ArrayItems(elem, n, 1) \o <<RBRACK>>

CropTok(i) == Str(Cyclic(CROP_NAMES, i))
StageTok(i) == Str(Cyclic(STAGE_NAMES, i))
ScoreTok(i) == Num(Cyclic(SCORES, i))

\* What a reply may hold under one key: nothing (<<>>), a scalar, or an
\* array of 0..MaxList elements.
CropValues == {<<>>, <<Lit("null")>>, <<Str("rice")>>} \cup {Array(CropTok, n) : n \in 0..MaxList}
ScoreValues == {<<>>, <<Num(7)>>, <<Num(0)>>} \cup {Array(ScoreTok, n) : n \in 0..MaxList}
StageValues == {<<>>, <<Str("flowering")>>, <<Lit("false")>>} \cup {Array(StageTok, n) : n \in 0..MaxList}
DescriptionValues == {<<>>, <<Str("")>>, <<Str("A healthy field.")>>}

Member(key, value) == IF value = <<>> THEN <<>> ELSE <<<<Str(key), COLON>> \o value>>

RECURSIVE JoinMembers(_, _)
JoinMembers(members, i) ==
    IF i > Len(members) THEN <<>>
    ELSE (IF i > 1 THEN <<COMMA>> ELSE <<>>) \o members[i] \o JoinMembers(members, i + 1)

\* The tokens of a JSON object holding the given values.
Object(crop, score, stage, description) ==
    <<LBRACE>>
    \o JoinMembers(Member("crop_name", crop) \o Member("confidence_score", score)
                   \o Member("stage_of_plant_growth", stage)
                   \o Member("description", description), 1)
    \o <<RBRACE>>

Fenced(text) == <<FENCE_JSON, NL>> \o text \o <<NL, FENCE>>

ObjectTexts ==
    {Object(c, sc, st, d) : c \in CropValues, sc \in ScoreValues, st \in StageValues,
                            d \in DescriptionValues}

\* Replies that are no object of the expected keys: not JSON at all, JSON
\* of another shape, an object with other keys, a repeated key.
OtherTexts ==
    {<<>>, <<NL>>, <<Word("Sorry, I cannot tell.")>>, <<FENCE, FENCE>>,
     <<LBRACE, Str("crop_name"), COLON>>, <<LBRACE, RBRACE, Word("done")>>,
     <<LBRACK, Str("rice"), COMMA, RBRACK>>,
     <<Lit("null")>>, <<Lit("true")>>, <<Lit("false")>>, <<Num(0)>>, <<Num(7)>>,
     <<Str("")>>, <<Str("rice")>>, <<LBRACK, RBRACK>>,
     <<LBRACK, Str("rice"), COMMA, Num(9), RBRACK>>,
     <<LBRACE, Str("foo"), COLON, Num(1), RBRACE>>,
     <<LBRACE, Str("crop_name"), COLON, Str("rice"), COMMA, Str("crop_name"), COLON,
       LBRACK, Str("wheat"), RBRACK, RBRACE>>,
     <<LBRACE, Str("crop_name"), COLON, LBRACK, LBRACK, Str("rice"), RBRACK, COMMA,
       LBRACE, RBRACE, RBRACK, RBRACE>>}

Texts == ObjectTexts \cup OtherTexts

\* generate_content returns a text, raises, or returns a response without a
\* text part, whose .text raises ValueError.
Reply(text) == [kind |-> "text", text |-> text]
Raises == [kind |-> "raise", text |-> <<>>]
Blocked == [kind |-> "blocked", text |-> <<>>]

GenServices == {Raises, Blocked} \cup {Reply(x) : x \in Texts} \cup {Reply(Fenced(x)) : x \in Texts}

GoodReply == Reply(Fenced(Object(Array(CropTok, 2), Array(ScoreTok, 2), Array(StageTok, 2),
                                 <<Str("A healthy field.")>>)))

SmallServices ==
    {Raises, Blocked, Reply(<<>>), Reply(<<Word("Sorry, I cannot tell.")>>), GoodReply,
     Reply(Object(Array(CropTok, 3), Array(ScoreTok, 2), <<Str("flowering")>>, <<>>)),
     Reply(<<LBRACK, Str("rice"), RBRACK>>)}

\* --- configuration ----------------------------------------------------------
GoodEnvFile ==
    [present |-> TRUE,
     lines |-> <<<<"# keys", "\n">>, <<KEY_NAME, " ", "=", " ", "k-file", "\n">>>>]
NoEnvFile == [present |-> FALSE, lines |-> <<>>]
OtherEnvFile == [present |-> TRUE, lines |-> <<<<"OTHER_KEY", "=", "x", "\n">>>>]
BrokenEnvFile == [present |-> TRUE, lines |-> <<<<KEY_NAME, "\n">>>>]

GoodPrompt == [present |-> TRUE, text |-> <<"Identify the crop and its growth stage.">>]
NoPrompt == [present |-> FALSE, text |-> <<>>]

Config(file, key, prompt) == [env_file |-> file, environ_key |-> key, prompt_file |-> prompt]

GoodConfigs == {Config(GoodEnvFile, <<>>, GoodPrompt), Config(NoEnvFile, <<"k-env">>, GoodPrompt)}
BadConfigs ==
    {Config(NoEnvFile, <<>>, GoodPrompt), Config(OtherEnvFile, <<>>, GoodPrompt),
     Config(OtherEnvFile, <<>>, NoPrompt), Config(BrokenEnvFile, <<"k-env">>, GoodPrompt),
     Config(GoodEnvFile, <<>>, NoPrompt)}

Env(config, t, s) ==
    [env_file |-> config.env_file, environ_key |-> config.environ_key,
     prompt_file |-> config.prompt_file, tree |-> t, service |-> s]

Files == {"imgA", "imgB", "imgBad"}

\* The environments a session is explored in.
SmallEnvs ==
    {Env(c, t, s) : c \in {Config(GoodEnvFile, <<>>, GoodPrompt)}, t \in SmallTrees,
                    s \in SmallServices}
    \cup {Env(c, MkTree(ThreeImages, "none"), GoodReply) : c \in GoodConfigs \cup BadConfigs}

\* ------------------------------------------------------------------------
\* Initial states and user actions
\* ------------------------------------------------------------------------
SetEnv(e) ==
    /\ env_file' = e.env_file
    /\ environ_key' = e.environ_key
    /\ prompt_file' = e.prompt_file
    /\ tree' = e.tree
    /\ service' = e.service

\* The state in which a script run starts in environment e.
RunStarts(e, file, session, analyze) ==
    /\ env_file = e.env_file
    /\ environ_key = e.environ_key
    /\ prompt_file = e.prompt_file
    /\ tree = e.tree
    /\ service = e.service
    /\ widget_file = file
    /\ session_state = session
    /\ pc = "startup"
    /\ analyze_button = analyze
    /\ reset_button = FALSE
    /\ api_key = <<>>
    /\ prompt_text = <<>>
    /\ offered = {}
    /\ errors = <<>>
    /\ context_images = <<>>
    /\ prompt_parts = <<>>
    /\ response = NoResponse
    /\ llm_result = PyNone
    /\ decode = "none"
    /\ result = FreshResult
    /\ cards = <<>>
    /\ description_card = <<>>
    /\ exc = "none"
    /\ events = <<>>
    /\ past = {}

\* The page is opened in a browser: the first run of the script.
Init == \E e \in SmallEnvs : RunStarts(e, NoFile, EmptyDict, FALSE)

\* A widget event reruns the script from the top; the files, the process
\* environment and the remote service are whatever they are by then.
BeginRun(analyze, reset) ==
    /\ pc' = "startup"
    /\ analyze_button' = analyze
    /\ reset_button' = reset
    /\ FreshLocals
    /\ \E e \in SmallEnvs : SetEnv(e)

\* How the run that is over failed, if it did: the reference load was
\* aborted, the remote call gave nothing, the reply had the wrong format.
RunFailures ==
    LET happened(event) == \E i \in 1..Len(events) : events[i] = event
        reported(message) == \E i \in 1..Len(errors) : errors[i] = message
    IN  {k \in {"load", "remote", "format"} :
            \/ k = "load" /\ happened("load") /\ ~happened("assemble")
            \/ k = "remote" /\ happened("call")
                            /\ (reported(ERR_CALL) \/ reported(ERR_EMPTY))
            \/ k = "format" /\ (decode = "error" \/ exc = "AttributeError")}

\* The user picks, replaces or removes the file of the upload control.
ChooseFile ==
    /\ pc = "idle"
    /\ "upload" \in offered
    /\ \E f \in (Files \cup {NoFile}) \ {widget_file} : widget_file' = f
    /\ BeginRun(FALSE, FALSE)
    /\ past' = past \cup RunFailures
    /\ UNCHANGED session_state

\* The user presses "Analyze Image".
ClickAnalyze ==
    /\ pc = "idle"
    /\ "analyze" \in offered
    /\ BeginRun(TRUE, FALSE)
    /\ past' = past \cup RunFailures
    /\ UNCHANGED sessionVars

\* The user presses "Reset".
ClickReset ==
    /\ pc = "idle"
    /\ "reset" \in offered
    /\ BeginRun(FALSE, TRUE)
    /\ past' = past \cup RunFailures
    /\ UNCHANGED sessionVars

\* The user reloads the page: a new session.
Reload ==
    /\ pc = "idle"
    /\ widget_file' = NoFile
    /\ session_state' = EmptyDict
    /\ past' = {}
    /\ BeginRun(FALSE, FALSE)

Next ==
    \/ NextRun
    \/ ChooseFile
    \/ ClickAnalyze
    \/ ClickReset
    \/ Reload

\* A browser session: page loads, uploads, Analyze and Reset in any order.
Spec == Init /\ [][Next]_vars

\* One Analyze action on an uploaded image, for every generated reference
\* tree; the configuration is complete and the model answers well.
InitLoader ==
    \E t \in GenTrees :
        RunStarts(Env(Config(GoodEnvFile, <<>>, GoodPrompt), t, GoodReply),
                  "imgA", [k \in {"uploaded_file"} |-> "imgA"], TRUE)

SpecLoader == InitLoader /\ [][NextRun]_vars

\* One Analyze action on an uploaded image, for every generated behaviour
\* of the remote model; the configuration is complete.
InitParser ==
    \E s \in GenServices :
        RunStarts(Env(Config(GoodEnvFile, <<>>, GoodPrompt), MkTree(ThreeImages, "none"), s),
                  "imgA", [k \in {"uploaded_file"} |-> "imgA"], TRUE)

SpecParser == InitParser /\ [][NextRun]_vars

\* ------------------------------------------------------------------------
\* Properties
\* ------------------------------------------------------------------------
Range(seq) == {seq[i] : i \in 1..Len(seq)}

\* process_image has returned or raised in this run.
Processed == pc \in {"render", "idle"} /\ "load" \in Range(events)

\* The run is over and went through the rendering of the results.
Rendered == pc = "idle" /\ "load" \in Range(events) /\ exc # "AttributeError"

\* The reply received does not decode as JSON once the fences are removed.
ReplyNotJson == response.kind = "text" /\ ~json_loads(StripFences(response.text)).ok

\* C1: when the reply text, after fence stripping, is not decodable as
\* JSON, process_image returns empty crops, scores and stages, an error
\* message is on the page, and no exception has left call_llm or
\* process_image.
C1_NonJsonReplyYieldsEmptyResult ==
    (Processed /\ ReplyNotJson) =>
        /\ exc = "none"
        /\ llm_result = PyNone
        /\ result.crops = <<>> /\ result.scores = <<>> /\ result.stages = <<>>
        /\ errors # <<>>
        /\ (response.text # <<>> => ERR_JSON \in Range(errors))

C1_Witness ==
    /\ pc = "idle"
    /\ ReplyNotJson
    /\ response.text # <<>>
    /\ \E i \in 1..Len(response.text) : response.text[i] = FENCE_JSON
    /\ ERR_JSON \in Range(errors)
    /\ ERR_NO_CROP \in Range(errors)

\* C2: a reply that decodes as JSON but lacks the expected shape (an object
\* without the keys, an empty object, an array, a string, a number, null) is
\* recovered like a failed remote call: no exception leaves process_image,
\* the run ends with zero result cards and the user is told.
C2_MalformedJsonRecovered ==
    (pc = "idle" /\ decode = "ok"
        /\ (llm_result.t # "obj" \/ ~HasKey(llm_result, "crop_name"))) =>
        /\ exc = "none"
        /\ cards = <<>>
        /\ errors # <<>>

\* The members of the decoded object stored under key.
MembersOf(key) == {i \in 1..Len(llm_result.members) : llm_result.members[i].key = key}

\* What process_image is to return for the field stored under key.
NormalizedField(key, field) ==
    IF MembersOf(key) = {} THEN field = <<>>
    ELSE \A i \in MembersOf(key) :
            LET v == llm_result.members[i].val IN
            IF v.t = "list" THEN field = v.items ELSE field = <<v>>

\* C6: for a reply decoded to a JSON object, each of crop_name,
\* confidence_score and stage_of_plant_growth is returned by process_image
\* as [v] when present as a non-list v, unchanged when a list, and as the
\* empty list when missing.
C6_FieldsNormalizedToLists ==
    (Processed /\ decode = "ok" /\ llm_result.t = "obj") =>
        /\ exc # "AttributeError"
        /\ NormalizedField("crop_name", result.crops)
        /\ NormalizedField("confidence_score", result.scores)
        /\ NormalizedField("stage_of_plant_growth", result.stages)

C6_Witness ==
    /\ pc = "render"
    /\ decode = "ok" /\ llm_result.t = "obj"
    /\ result.crops = <<PyStr("rice")>>
    /\ result.scores = <<PyNum(9), PyNum(7), PyNum(0)>>
    /\ MembersOf("stage_of_plant_growth") = {} /\ result.stages = <<>>

\* C7: with a non-empty crops list one card is written per crop, in order,
\* the score (the stage) of a crop at or beyond the end of scores (stages)
\* reads N/A, and no index error is raised.
C7_CardsFallBackToNA ==
    (Rendered /\ result.crops # <<>>) =>
        /\ exc = "none"
        /\ Len(cards) = Len(result.crops)
        /\ \A i \in 1..Len(cards) :
            /\ cards[i].crop = <<"**Crop:** ">> \o Format(result.crops[i], FALSE)
            /\ i > Len(result.scores) => cards[i].score = <<"**Score:** ", "N/A">>
            /\ i > Len(result.stages) => cards[i].stage = <<"**Stage:** ", "N/A">>
            /\ i <= Len(result.scores) =>
                 cards[i].score = <<"**Score:** ">> \o Format(result.scores[i], FALSE)
            /\ i <= Len(result.stages) =>
                 cards[i].stage = <<"**Stage:** ">> \o Format(result.stages[i], FALSE)

C7_Witness ==
    /\ Rendered
    /\ Len(result.crops) = 3 /\ Len(result.scores) = 2 /\ Len(result.stages) = 0
    /\ Len(cards) = 3
    /\ cards[3].score = <<"**Score:** ", "N/A">>
    /\ cards[2].score = <<"**Score:** ", "7">>

\* The crop directories and, in each, the stage directories of the tree.
CropDirs == {c \in 1..Len(tree.entries) : tree.entries[c].isdir}
StageDirs(c) ==
    {st \in 1..Len(tree.entries[c].entries) : tree.entries[c].entries[st].isdir}

\* The part of a file name after its last dot, in lower case; <<>> when the
\* name has no dot.
Extension(name) ==
    LET dots == {i \in 1..Len(name) : name[i] = "."} IN
    IF dots = {} THEN <<>>
    ELSE LET last == CHOOSE i \in dots : \A j \in dots : j <= i IN
         [k \in 1..(Len(name) - last) |-> LowerChar(name[last + k])]

HasImageExtension(name) ==
    Extension(name) \in {<<"p", "n", "g">>, <<"j", "p", "g">>, <<"j", "p", "e", "g">>}

\* The positions, in a listing, of the first two image files.
FirstTwoImages(files) ==
    LET images == {k \in 1..Len(files) : HasImageExtension(files[k].name)}
    IN  {k \in images : Cardinality({m \in images : m < k}) < 2}

RECURSIVE Ascending(_)
\* The elements of a set of numbers in ascending order.
Ascending(S) ==
    IF S = {} THEN <<>>
    ELSE LET least == CHOOSE x \in S : \A y \in S : x <= y
         IN  <<least>> \o Ascending(S \ {least})

\* The entries of the files at the given positions, labelled for the stage.
Labelled(c, st, positions) ==
    LET crop == tree.entries[c]
        stage == crop.entries[st]
        order == Ascending(positions)
    IN  [i \in 1..Len(order) |->
            [description |-> <<crop.name, " - ", stage.name, ":">>,
             data |-> stage.entries[order[i]].data]]

\* The entries of context_images that carry the label of the stage.
EntriesOf(c, st) ==
    SelectSeq(context_images,
              LAMBDA e : e.description =
                  <<tree.entries[c].name, " - ", tree.entries[c].entries[st].name, ":">>)

\* load_context_images has run in this script run / has returned a list.
LoadAttempted == "load" \in Range(events)
LoadReturned == pc = "assemble" \/ "assemble" \in Range(events)

\* C3: when the listing of one crop or stage directory fails, the loader
\* skips it and still returns the entries of every stage that can be
\* listed; the load and the analysis are not aborted.
C3_UnlistableDirectorySkipped ==
    (LoadAttempted /\ tree.listable) =>
        /\ LoadReturned
        /\ \A c \in CropDirs : tree.entries[c].listable =>
             \A st \in StageDirs(c) : tree.entries[c].entries[st].listable =>
                LET files == tree.entries[c].entries[st].entries IN
                EntriesOf(c, st) =
                    Labelled(c, st, {k \in FirstTwoImages(files) : files[k].readable})

\* C4 as claimed: the list the loader returns holds, per (crop, stage)
\* directory, exactly the first min(2, n) of its n image files, labelled
\* "<crop> - <stage>:", in order.
C4_ExactlyFirstTwoImages ==
    LoadReturned =>
        \A c \in CropDirs : \A st \in StageDirs(c) :
            EntriesOf(c, st) =
                Labelled(c, st, FirstTwoImages(tree.entries[c].entries[st].entries))

\* C4 as amended: the list the loader returns holds, per (crop, stage)
\* directory, at most 2 entries: those of the first min(2, n) of its n image
\* files that could be read, labelled "<crop> - <stage>:", in order; an
\* image file that cannot be read is skipped and still counts toward the
\* cap, files with other extensions never appear and do not count.
C4_ReadableOfFirstTwoImages ==
    LoadReturned =>
        /\ \A c \in CropDirs : \A st \in StageDirs(c) :
            LET files == tree.entries[c].entries[st].entries IN
            /\ Len(EntriesOf(c, st)) <= 2
            /\ EntriesOf(c, st) =
                 Labelled(c, st, {k \in FirstTwoImages(files) : files[k].readable})
        /\ \A i \in 1..Len(context_images) :
             \E c \in CropDirs : \E st \in StageDirs(c) :
                context_images[i] \in Range(EntriesOf(c, st))

\* Three images and a text file first: the third image is left out; and a
\* directory whose first image cannot be read gives one entry only.
C4_Witness ==
    /\ LoadReturned
    /\ \E c \in CropDirs : \E st \in StageDirs(c) :
         LET files == tree.entries[c].entries[st].entries IN
         /\ Len(files) = 3
         /\ ~HasImageExtension(files[1].name)
         /\ \A k \in 2..Len(files) : HasImageExtension(files[k].name)
         /\ ~files[2].readable
         /\ Len(EntriesOf(c, st)) = 1
    /\ \E c \in CropDirs : \E st \in StageDirs(c) :
         LET files == tree.entries[c].entries[st].entries IN
         /\ Cardinality({k \in 1..Len(files) : HasImageExtension(files[k].name)}) = 3
         /\ Len(EntriesOf(c, st)) = 2

\* C5: the payload sent is the instruction text, the input-image separator,
\* the input image and the examples separator, then for each reference
\* example, in the loader's order, its label and its image: 4 + 2k parts for
\* k examples, none reordered or left out.
C5_PayloadOrder ==
    ("assemble" \in Range(events)) =>
        /\ Len(prompt_parts) = 4 + 2 * Len(context_images)
        /\ prompt_parts[1] = TextPart(prompt_file.text)
        /\ prompt_parts[2] = TextPart(<<"\n\nINPUT IMAGE:">>)
        /\ prompt_parts[3] = ImagePart(session_state["uploaded_file"])
        /\ prompt_parts[4] =
             TextPart(<<"\n\nUse the following examples to match the crop in the input image:\n">>)
        /\ \A j \in 1..Len(context_images) :
             /\ prompt_parts[3 + 2 * j] = TextPart(context_images[j].description)
             /\ prompt_parts[4 + 2 * j] = ImagePart(context_images[j].data)

\* The payload went out with two examples of the same label and two of the
\* same image bytes.
C5_Witness ==
    /\ "call" \in Range(events)
    /\ Len(prompt_parts) >= 12
    /\ \E i, j \in 1..Len(context_images) :
         i < j /\ context_images[i].description = context_images[j].description
    /\ \E i, j \in 1..Len(context_images) :
         /\ i < j
         /\ context_images[i].data = context_images[j].data
         /\ context_images[i].description = context_images[j].description

\* No line NAME=value for the key in the .env file, and no environment
\* variable.
CredentialAbsent ==
    /\ environ_key = <<>>
    /\ ~\E i \in 1..Len(env_file.lines) :
          /\ Len(env_file.lines[i]) > 0
          /\ env_file.lines[i][1] = "GOOGLE_API_KEY"
          /\ "=" \in Range(env_file.lines[i])

\* C8: with the credential or the instruction template absent the run
\* halts with an error on the page before any control is offered (upload,
\* Analyze, Reset) and before any reference load or remote call.
C8_StartupFatalBeforeAnyUI ==
    (pc = "idle" /\ (CredentialAbsent \/ ~prompt_file.present)) =>
        /\ errors # <<>>
        /\ offered = {}
        /\ events = <<>>

\* The positions of an event in the run.
At(event) == {i \in 1..Len(events) : events[i] = event}

\* C9: a run (one Analyze action) makes at most one remote call, whatever
\* its outcome; the call comes after the reference load and the payload
\* assembly and before the parsing; a failed call is reported and not
\* repeated.
C9_AtMostOneRemoteCall ==
    /\ Cardinality(At("call")) <= 1
    /\ \A i \in At("call") :
         /\ \E j \in At("load") : j < i
         /\ \E j \in At("assemble") : j < i
         /\ \A j \in At("parse") : i < j
    /\ \A j \in At("parse") : At("call") # {}
    /\ (pc \in {"process", "render", "idle"} /\ At("call") # {} /\ service.kind = "raise") =>
         ERR_CALL \in Range(errors)
    /\ (pc \in {"process", "render", "idle"} /\ At("load") # {} /\ At("assemble") = {}) =>
         At("call") = {}

\* A run with a failed call is over: one call, reported, the page tells
\* that no crop was found.
C9_Witness ==
    /\ pc = "idle"
    /\ service.kind = "raise"
    /\ Cardinality(At("call")) = 1
    /\ errors = <<ERR_CALL, ERR_NO_CROP>>

\* What an analysis of the current upload yields in the current
\* environment: the loader's images, the payload, the decoded reply, the
\* results and the page, computed from nothing else.
Analysis ==
    LET image == session_state["uploaded_file"]
        loaded == load_context_images(tree)
        called == ~loaded.raised
        parsed == IF called /\ service.kind = "text" THEN ParseResponse(service.text)
                  ELSE [llm_result |-> PyNone, errors |-> <<ERR_CALL>>, decode |-> "none"]
        processed == ProcessResult(parsed.llm_result)
        rendered == RenderResults(processed.crops, processed.scores, processed.stages,
                                  processed.description)
        done == processed.raised = "none"
    IN  [context_images |-> loaded.images,
         prompt_parts |-> IF called
                          THEN BuildPromptParts(image, prompt_file.text, loaded.images)
                          ELSE <<>>,
         llm_result |-> parsed.llm_result,
         result |-> IF done THEN processed ELSE FreshResult,
         cards |-> IF done THEN rendered.cards ELSE <<>>,
         errors |-> parsed.errors \o (IF done THEN processed.errors \o rendered.errors
                                      ELSE <<>>),
         exc |-> IF done THEN rendered.raised ELSE processed.raised]

\* C10: once an Analyze run is over, whatever happened in the runs before
\* it, the page offers Analyze again and everything the run produced is
\* what the current upload, instruction text, reference tree and model
\* reply determine.
C10_AnalysisFromCleanSlate ==
    (pc = "idle" /\ "load" \in Range(events)) =>
        /\ "analyze" \in offered
        /\ context_images = Analysis.context_images
        /\ prompt_parts = Analysis.prompt_parts
        /\ llm_result = Analysis.llm_result
        /\ result = Analysis.result
        /\ cards = Analysis.cards
        /\ errors = Analysis.errors
        /\ exc = Analysis.exc

\* A good analysis has followed, in the same session, runs that failed in
\* each of the three ways.
C10_Witness ==
    /\ pc = "idle"
    /\ past = {"load", "remote", "format"}
    /\ "parse" \in Range(events)
    /\ Len(cards) = 2
    /\ errors = <<>>
    /\ exc = "none"

====
